---- MODULE Spec2Model ----
(***************************************************************************)
(* Model of src/calculations.pyx: the insertion-evaluation engine of the   *)
(* permutation flowshop repository (taillard_acceleration, tie_breaking,   *)
(* calculate_completion_times, calculate_idle_times).                      *)
(*                                                                         *)
(* The four routines are pure functions of their arguments plus, for the   *)
(* two routines that use C stack arrays, the prior contents of those       *)
(* arrays.  A C table is modelled as a partial function from <<row, col>>  *)
(* to Int whose DOMAIN is the set of cells the call has written; reading   *)
(* a cell outside that domain yields the prior content of the cell, which  *)
(* is a nondeterministic choice made at the call.                          *)
(***************************************************************************)
EXTENDS Integers, Sequences, FiniteSets, TLC

VARIABLES sequence, processing_times, inserting_job, num_machines,
          use_tie_breaking, return_array, call, result, tables

vars == <<sequence, processing_times, inserting_job, num_machines,
          use_tie_breaking, return_array, call, result, tables>>

(***************************************************************************)
(* Bounds of the model.                                                    *)
(***************************************************************************)
MaxJobs == 2
MaxMachines == 3
MaxWork == 2
MaxGarbage == 2

(***************************************************************************)
(* Program constants.                                                      *)
(***************************************************************************)
TableRows == 801
TableCols == 61
InitialItbp == 2000000

Garbage == {0 - MaxGarbage, MaxGarbage}

(***************************************************************************)
(* C tables.                                                               *)
(***************************************************************************)
EmptyTable == [x \in {} |-> 0]

Get(t, idx, prior) == IF idx \in DOMAIN t THEN t[idx] ELSE prior

Put(t, idx, v) == (idx :> v) @@ t

\* numpy.zeros((rows, cols)): every cell of the buffer is written with 0.
Zeros(rows, cols) == [x \in (0..(rows - 1)) \X (0..(cols - 1)) |-> 0]

(***************************************************************************)
(* for k in range(lo, hi + 1): st = Body(st, k).  The range is split in    *)
(* halves, and the state after the first half is computed before the      *)
(* second half runs, so that the evaluation stack stays shallow on long    *)
(* ranges.                                                                 *)
(***************************************************************************)
RECURSIVE For(_, _, _, _)
For(Body(_, _), st, lo, hi) ==
  IF lo > hi THEN st
  ELSE IF lo = hi THEN Body(st, lo)
  ELSE LET mid == (lo + hi) \div 2
           half == For(Body, st, lo, mid)
       IN IF <<half>> # <<>> THEN For(Body, half, mid + 1, hi) ELSE st

(***************************************************************************)
(* A call context: the arguments of a call and the memory it may read      *)
(* without having written it.  g.stack is the prior content of the stack   *)
(* arrays (e, q, f, ms of taillard_acceleration, fl of tie_breaking),      *)
(* g.heap what lies around the numpy buffers.                              *)
(***************************************************************************)
Ctx(seq, p, job, m, g) ==
  [sequence |-> seq, processing_times |-> p, inserting_job |-> job,
   num_machines |-> m, g |-> g]

\* processing_times[job - 1, j - 1] with boundscheck(False): a row or column
\* outside the matrix reads whatever lies there.
PT(c, job, j) ==
  IF job \in 1..Len(c.processing_times) /\ j \in 1..Len(c.processing_times[job])
  THEN c.processing_times[job][j]
  ELSE c.g.heap

(***************************************************************************)
(* taillard_acceleration, main loop (lines 42-79).                         *)
(***************************************************************************)
TA_RowHead(st, i, c) ==
  LET n == Len(c.sequence)
      m == c.num_machines
      a == IF i < n + 1
           THEN [st EXCEPT !.e = Put(@, <<i, 0>>, 0),
                           !.iq = @ - 1,
                           !.q = Put(@, <<st.iq - 1, m + 1>>, 0)]
           ELSE st
  IN [a EXCEPT !.f = Put(@, <<i, 0>>, 0), !.jq = m + 1]

TA_Cell(st, i, j, c) ==
  LET n == Len(c.sequence)
      m == c.num_machines
      s1 == IF i = 1
            THEN [st EXCEPT !.e = Put(@, <<0, j>>, 0),
                            !.q = Put(@, <<n + 1, m + 1 - j>>, 0)]
            ELSE st
      s2 == IF i < n + 1
            THEN LET jq == s1.jq - 1
                     iq == s1.iq
                     el == Get(s1.e, <<i, j - 1>>, c.g.stack)
                     eu == Get(s1.e, <<i - 1, j>>, c.g.stack)
                     ev == IF el > eu
                           THEN el + PT(c, c.sequence[i], j)
                           ELSE eu + PT(c, c.sequence[i], j)
                     qr == Get(s1.q, <<iq, jq + 1>>, c.g.stack)
                     qd == Get(s1.q, <<iq + 1, jq>>, c.g.stack)
                     qv == IF qr > qd
                           THEN qr + PT(c, c.sequence[iq], jq)
                           ELSE qd + PT(c, c.sequence[iq], jq)
                 IN [s1 EXCEPT !.jq = jq,
                               !.e = Put(@, <<i, j>>, ev),
                               !.q = Put(@, <<iq, jq>>, qv)]
            ELSE s1
      fl == Get(s2.f, <<i, j - 1>>, c.g.stack)
      eu2 == Get(s2.e, <<i - 1, j>>, c.g.stack)
      fv == IF fl > eu2
            THEN fl + PT(c, c.inserting_job, j)
            ELSE eu2 + PT(c, c.inserting_job, j)
  IN [s2 EXCEPT !.f = Put(@, <<i, j>>, fv)]

TA_Row(st, i, c) ==
  LET Body(s, j) == TA_Cell(s, i, j, c)
  IN For(Body, TA_RowHead(st, i, c), 1, c.num_machines)

TA_MainLoop(c) ==
  LET Body(s, i) == TA_Row(s, i, c)
  IN For(Body, [e |-> EmptyTable, q |-> EmptyTable, f |-> EmptyTable,
                iq |-> Len(c.sequence) + 1, jq |-> 0],
         1, Len(c.sequence) + 1)

(***************************************************************************)
(* taillard_acceleration, makespan of every position and the best one      *)
(* (lines 83-94).  ms is a one-column table.                               *)
(***************************************************************************)
\* A variant of TA_Ms that looks at the last machine only.
TA_Ms_LastMachine(st, i, c) ==
  Get(st.f, <<i, c.num_machines>>, c.g.stack) + Get(st.q, <<i, c.num_machines>>, c.g.stack)

\* lines 86-90
TA_Ms(st, i, c) ==
  LET Body(msi, j) ==
        LET tmp == Get(st.f, <<i, j>>, c.g.stack) + Get(st.q, <<i, j>>, c.g.stack)
        IN IF tmp > msi THEN tmp ELSE msi
  IN For(Body, 0, 1, c.num_machines)

\* lines 92-94
TA_Better(msi, best_makespan) == msi < best_makespan \/ best_makespan = 0

TA_BestStep(b, st, i, c) ==
  LET msi == TA_Ms(st, i, c)
      upd == TA_Better(msi, b.best_makespan)
  IN [ms |-> Put(b.ms, <<i, 0>>, msi),
      best_makespan |-> IF upd THEN msi ELSE b.best_makespan,
      best_position |-> IF upd THEN i ELSE b.best_position]

TA_Best(st, c) ==
  LET Body(b, i) == TA_BestStep(b, st, i, c)
  IN For(Body, [ms |-> EmptyTable, best_makespan |-> 0, best_position |-> 0],
         1, Len(c.sequence) + 1)

(***************************************************************************)
(* tie_breaking (lines 126-163).  e, f and ms are the caller's tables; fl  *)
(* is a stack array of tie_breaking.                                       *)
(***************************************************************************)
\* lines 142-144: position i = sequence_length
TB_Last(st, c) ==
  LET n == Len(c.sequence)
      Body(it, j) == it + Get(st.f, <<n, j>>, c.g.stack)
                        - Get(st.e, <<n - 1, j>>, c.g.stack)
                        - PT(c, c.inserting_job, j)
  IN For(Body, 0, 1, c.num_machines)

\* lines 150-157: one machine j >= 2 of a position i # sequence_length
TB_Cell(w, st, i, j, c) ==
  LET fij == Get(st.f, <<i, j>>, c.g.stack)
      eij == Get(st.e, <<i, j>>, c.g.stack)
      flp == Get(w.fl, <<i, j - 1>>, c.g.stack)
      it1 == w.it + fij - eij + PT(c, i, j) - PT(c, c.inserting_job, j)
      it2 == IF flp - fij > 0 THEN it1 + flp - fij ELSE it1
      flv == IF flp > fij
             THEN flp + PT(c, i, j)
             ELSE Get(w.fl, <<i, j>>, c.g.stack) + PT(c, i, j)
  IN [it |-> it2, fl |-> Put(w.fl, <<i, j>>, flv)]

\* lines 148-157: a position i # sequence_length
TB_Other(fl, st, i, c) ==
  LET Body(w, j) == TB_Cell(w, st, i, j, c)
  IN For(Body,
         [it |-> 0,
          fl |-> Put(fl, <<i, 1>>, Get(st.f, <<i, 1>>, c.g.stack) + PT(c, i, 1))],
         2, c.num_machines)

\* A variant of TB_Tied that lets every position compete.
TB_Tied_Always(ms, i, best_makespan, c) == TRUE

\* line 136
TB_Tied(ms, i, best_makespan, c) == Get(ms, <<i, 0>>, c.g.stack) = best_makespan

\* lines 136-161: one position i
TB_Row(t, st, ms, i, c) ==
  IF TB_Tied(ms, i, t.best_makespan, c)
  THEN LET w == IF i = Len(c.sequence)
                THEN [it |-> TB_Last(st, c), fl |-> t.fl]
                ELSE TB_Other(t.fl, st, i, c)
           better == w.it < t.itbp
       IN [fl |-> w.fl,
           best_makespan |-> t.best_makespan,
           num_ties |-> t.num_ties + 1,
           itbp |-> IF better THEN w.it ELSE t.itbp,
           best_position |-> IF better THEN i ELSE t.best_position]
  ELSE t

\* A variant of TB_Start that takes the makespan of the first position.
TB_Start_First(ms, best_position, c) == Get(ms, <<1, 0>>, c.g.stack)

\* line 131
TB_Start(ms, best_position, c) == Get(ms, <<best_position, 0>>, c.g.stack)

tie_breaking(st, ms, best_position, c) ==
  LET Body(t, i) == TB_Row(t, st, ms, i, c)
  IN For(Body,
         [fl |-> EmptyTable,
          best_makespan |-> TB_Start(ms, best_position, c),
          num_ties |-> 0,
          itbp |-> InitialItbp,
          best_position |-> best_position],
         1, Len(c.sequence) + 1)

(***************************************************************************)
(* taillard_acceleration (lines 13-99): the returned pair and the tables   *)
(* as the call leaves them.                                                *)
(***************************************************************************)
taillard_acceleration(c, tie) ==
  LET st == TA_MainLoop(c)
      b == TA_Best(st, c)
      t == IF tie > 0
           THEN tie_breaking(st, b.ms, b.best_position, c)
           ELSE [fl |-> EmptyTable, best_position |-> b.best_position]
  IN [best_position |-> t.best_position,
      best_makespan |-> b.best_makespan,
      e |-> st.e, q |-> st.q, f |-> st.f, ms |-> b.ms, fl |-> t.fl]

(***************************************************************************)
(* calculate_completion_times (lines 168-206).                             *)
(***************************************************************************)
\* A variant of CT_Cell that waits for the previous job only.
CT_Cell_NoMax(e, i, j, c) ==
  Put(e, <<i, j>>, Get(e, <<i - 1, j>>, c.g.heap) + PT(c, c.sequence[i], j))

\* lines 193-199
CT_Cell(e, i, j, c) ==
  LET e1 == IF i = 1 THEN Put(e, <<0, j>>, 0) ELSE e
      up == Get(e1, <<i - 1, j>>, c.g.heap)
      lf == Get(e1, <<i, j - 1>>, c.g.heap)
  IN IF up > lf
     THEN Put(e1, <<i, j>>, up + PT(c, c.sequence[i], j))
     ELSE Put(e1, <<i, j>>, lf + PT(c, c.sequence[i], j))

CT_Row(e, i, c) ==
  LET Body(t, j) == CT_Cell(t, i, j, c)
  IN For(Body, Put(e, <<i, 0>>, 0), 1, c.num_machines)

calculate_completion_times(c, full) ==
  LET Body(t, i) == CT_Row(t, i, c)
      e == For(Body, Zeros(Len(c.sequence) + 1, c.num_machines + 1),
               1, Len(c.sequence))
  IN IF full > 0
     THEN e
     ELSE e[<<Len(c.sequence), c.num_machines>>]

(***************************************************************************)
(* calculate_idle_times (lines 211-237).  idle_time is a one-column table  *)
(* whose buffer, zeros((sequence_length)), holds the rows                  *)
(* 0..sequence_length-1; with boundscheck(False) a write to another row    *)
(* lands outside the buffer.                                               *)
(***************************************************************************)
\* line 236; sequence[i] of the source is c.sequence[i + 1]
IT_Cell(idle_time, e, i, j, c) ==
  LET idx == <<c.sequence[i + 1] - 1, 0>>
  IN Put(idle_time, idx, Get(idle_time, idx, c.g.heap)
                           + Get(e, <<i + 1, j>>, c.g.heap)
                           - PT(c, c.sequence[i + 1], j)
                           - Get(e, <<i, j>>, c.g.heap))

\* lines 234-236
IT_Row(idle_time, e, i, c) ==
  LET Body(t, j) == IT_Cell(t, e, i, j, c)
  IN For(Body, Put(idle_time, <<c.sequence[i + 1] - 1, 0>>, 0), 1, c.num_machines)

calculate_idle_times(c) ==
  LET e == calculate_completion_times(c, 1)
      Body(t, i) == IT_Row(t, e, i, c)
  IN [e |-> e,
      idle_time |-> For(Body, Zeros(Len(c.sequence), 1), 0, Len(c.sequence) - 1)]

\* The vector handed back to the caller: the buffer of idle_time.
IdleVector(idle_time, n) == [k \in 0..(n - 1) |-> idle_time[<<k, 0>>]]

(***************************************************************************)
(* Inputs.                                                                 *)
(***************************************************************************)
Range(s) == {s[k] : k \in 1..Len(s)}

\* The matrix of n rows and m columns that holds t everywhere.
Uniform(n, m, t) == [job \in 1..n |-> [j \in 1..m |-> t]]

\* The matrices of MaxJobs rows and m columns of non-negative integers whose
\* entries sum to at most w.
RECURSIVE Matrices(_, _)
Matrices(m, w) ==
  IF w = 0 THEN {Uniform(MaxJobs, m, 0)}
  ELSE LET prev == Matrices(m, w - 1)
       IN prev \cup {[x EXCEPT ![cell[1]][cell[2]] = @ + 1] :
                       x \in prev, cell \in (1..MaxJobs) \X (1..m)}

\* The three jobs on two machines of the documented scenarios.
Scenario == <<<<3, 2>>, <<2, 4>>, <<1, 1>>>>

\* The sequences of at most k distinct elements of ids.
RECURSIVE DistinctSeqs(_, _)
DistinctSeqs(ids, k) ==
  IF k = 0 THEN {<<>>}
  ELSE LET prev == DistinctSeqs(ids, k - 1)
       IN prev \cup UNION {{Append(s, x) : x \in ids \ Range(s)} : s \in prev}

(***************************************************************************)
(* State: the arguments the driver holds, the name of the last call it     *)
(* made with them, what that call returned, and the working tables as the  *)
(* call left them.                                                         *)
(***************************************************************************)
NoResult == [status |-> "none"]

Returned(v) == [status |-> "returned", value |-> v]

Crashed == [status |-> "crashed"]

NoTables == [e |-> EmptyTable, q |-> EmptyTable, f |-> EmptyTable,
             ms |-> EmptyTable, fl |-> EmptyTable, idle_time |-> EmptyTable]

ValidJob(job) == job \in 1..Len(processing_times)

ValidSequence == \A k \in 1..Len(sequence) : ValidJob(sequence[k])

\* What a call may find in memory it reads without having written it.
Priors(heapRead) ==
  [stack : Garbage, heap : IF heapRead THEN Garbage ELSE {0}]

\* A cell outside the declared int [801][61] (int [801] for ms).
Overflows(t) == \E idx \in DOMAIN t : idx[1] > TableRows - 1 \/ idx[2] > TableCols - 1

InitCommon ==
  /\ call = "none"
  /\ result = NoResult
  /\ tables = NoTables

\* A matrix, and the machine count that goes with it.
InitMatrix ==
  \/ /\ num_machines \in 1..MaxMachines
     /\ processing_times \in Matrices(num_machines, MaxWork)
  \/ /\ num_machines = Len(Scenario[1])
     /\ processing_times = Scenario

\* A partial sequence and a job that is not in it.
InitInsert ==
  /\ InitMatrix
  /\ inserting_job \in 1..Len(processing_times)
  /\ sequence \in DistinctSeqs((1..Len(processing_times)) \ {inserting_job},
                              Len(processing_times) - 1)
  /\ use_tie_breaking \in {0, 1}
  /\ return_array = 0
  /\ InitCommon

\* A non-empty sequence of distinct jobs, partial or complete.
InitTimes ==
  /\ InitMatrix
  /\ inserting_job = 0
  /\ sequence \in DistinctSeqs(1..Len(processing_times), Len(processing_times))
                    \ {<<>>}
  /\ use_tie_breaking = 0
  /\ return_array \in {0, 1}
  /\ InitCommon

\* Arguments that name a job the matrix has no row for.
InitInvalid ==
  /\ num_machines \in 1..MaxMachines
  /\ processing_times \in Matrices(num_machines, 1)
  /\ inserting_job \in 0..(MaxJobs + 1)
  /\ sequence \in DistinctSeqs((0..(MaxJobs + 1)) \ {inserting_job}, MaxJobs - 1)
                    \ {<<>>}
  /\ ~(ValidSequence /\ ValidJob(inserting_job))
  /\ use_tie_breaking \in {0, 1}
  /\ return_array \in {0, 1}
  /\ InitCommon

\* Calls at and just below the size the declared tables suggest: a short
\* sequence on many machines, or a long sequence on one machine.
InitCapacity ==
  /\ \/ /\ num_machines \in {TableCols - 2, TableCols - 1}
        /\ processing_times \in {Uniform(MaxJobs, num_machines, t) : t \in 0..MaxWork}
        /\ inserting_job \in 1..MaxJobs
        /\ sequence \in DistinctSeqs((1..MaxJobs) \ {inserting_job}, MaxJobs - 1)
     \/ /\ num_machines = 1
        /\ \E n \in {TableRows - 2, TableRows - 1} :
             /\ sequence = [k \in 1..n |-> k]
             /\ inserting_job = n + 1
             /\ processing_times \in {Uniform(n + 1, 1, t) : t \in 0..MaxWork}
  /\ use_tie_breaking \in {0, 1}
  /\ return_array = 0
  /\ InitCommon

Inputs == <<sequence, processing_times, inserting_job, num_machines,
            use_tie_breaking, return_array>>

TaillardAcceleration ==
  \E g \in Priors(~(ValidSequence /\ ValidJob(inserting_job))) :
    \E r \in {taillard_acceleration(
                Ctx(sequence, processing_times, inserting_job, num_machines, g),
                use_tie_breaking)} :
      /\ call' = "taillard_acceleration"
      /\ \/ /\ result' = Returned([best_position |-> r.best_position,
                                   best_makespan |-> r.best_makespan])
            /\ tables' = [NoTables EXCEPT !.e = r.e, !.q = r.q, !.f = r.f,
                                          !.ms = r.ms, !.fl = r.fl]
         \/ /\ \/ ~(ValidSequence /\ ValidJob(inserting_job))
               \/ Overflows(r.e) \/ Overflows(r.q) \/ Overflows(r.f)
               \/ Overflows(r.ms) \/ Overflows(r.fl)
            /\ result' = Crashed
            /\ tables' = NoTables
      /\ UNCHANGED Inputs

CalculateCompletionTimes ==
  \E g \in Priors(~ValidSequence) :
    \E c \in {Ctx(sequence, processing_times, inserting_job, num_machines, g)} :
      /\ call' = "calculate_completion_times"
      /\ \/ /\ result' = Returned(calculate_completion_times(c, return_array))
            /\ tables' = [NoTables EXCEPT !.e = calculate_completion_times(c, 1)]
         \/ /\ ~ValidSequence
            /\ result' = Crashed
            /\ tables' = NoTables
      /\ UNCHANGED Inputs

CalculateIdleTimes ==
  \E g \in Priors(~ValidSequence) :
    \E r \in {calculate_idle_times(
                Ctx(sequence, processing_times, inserting_job, num_machines, g))} :
      /\ call' = "calculate_idle_times"
      /\ \/ /\ result' = Returned(IdleVector(r.idle_time, Len(sequence)))
            /\ tables' = [NoTables EXCEPT !.e = r.e, !.idle_time = r.idle_time]
         \/ /\ \/ ~ValidSequence
               \/ \E idx \in DOMAIN r.idle_time : idx[1] \notin 0..(Len(sequence) - 1)
            /\ result' = Crashed
            /\ tables' = NoTables
      /\ UNCHANGED Inputs

NextInsert == TaillardAcceleration

NextTimes == CalculateCompletionTimes \/ CalculateIdleTimes

Next == TaillardAcceleration \/ CalculateCompletionTimes \/ CalculateIdleTimes

Spec == InitInsert /\ [][NextInsert]_vars

SpecTimes == InitTimes /\ [][NextTimes]_vars

SpecInvalid == InitInvalid /\ [][Next]_vars

SpecCapacity == InitCapacity /\ [][NextInsert]_vars

(***************************************************************************)
(* Properties.                                                             *)
(***************************************************************************)
N == Len(sequence)

M == num_machines

Max(a, b) == IF a > b THEN a ELSE b

MinOf(S) == CHOOSE x \in S : \A y \in S : x <= y

NoPrior == [stack |-> 0, heap |-> 0]

Done(name) == call = name /\ result.status = "returned"

\* sequence with inserting_job put before its i-th element (i = N + 1: appended).
Inserted(i) ==
  SubSeq(sequence, 1, i - 1) \o <<inserting_job>> \o SubSeq(sequence, i, N)

\* The makespan calculate_completion_times gives for the insertion at i.
InsertionMakespan(i) ==
  calculate_completion_times(
    Ctx(Inserted(i), processing_times, inserting_job, num_machines, NoPrior), 0)

\* The sum of the processing times of a job over the machines.
Work(job) ==
  LET Body(acc, j) == acc + processing_times[job][j]
  IN For(Body, 0, 1, M)

\* The per-position makespan vector of the last taillard_acceleration call.
MS(i) == tables.ms[<<i, 0>>]

MinPositions == {i \in 1..(N + 1) : \A k \in 1..(N + 1) : MS(i) <= MS(k)}

\* What the same arguments give without tie breaking, for a prior content g.
WithoutTieBreaking(g) ==
  taillard_acceleration(
    Ctx(sequence, processing_times, inserting_job, num_machines, g), 0)

\* C1: the makespan taillard_acceleration returns, with or without tie
\* breaking, is the least makespan calculate_completion_times gives over the
\* N + 1 insertions of the job; for an empty sequence it is the sum of the
\* job's processing times.
C1_BruteForceEquivalence ==
  call = "taillard_acceleration" =>
    /\ result.status = "returned"
    /\ result.value.best_makespan = MinOf({InsertionMakespan(i) : i \in 1..(N + 1)})
    /\ N = 0 => result.value.best_makespan = Work(inserting_job)

\* C1 witness: a call with tie breaking on a non-empty sequence where some
\* insertion is strictly worse than the one returned.
C1_Witness ==
  /\ Done("taillard_acceleration")
  /\ use_tie_breaking = 1
  /\ N >= 1
  /\ \E i \in 1..(N + 1) : InsertionMakespan(i) > result.value.best_makespan

\* C2: without tie breaking the position returned is the smallest position
\* whose makespan is the least one, zero processing times included.
C2_SmallestPosition ==
  (Done("taillard_acceleration") /\ use_tie_breaking = 0) =>
    result.value.best_position = MinOf(MinPositions)

\* C3: the table of calculate_completion_times has N + 1 rows and M + 1
\* columns, zeros in row 0 and column 0, and every other entry is the larger
\* of its upper and left neighbours plus the processing time of the job on the
\* machine; with return_array = 1 the table is returned, with return_array = 0
\* its entry (N, M); the documented scenario gives rows [0,3,5], [0,5,9] and 9.
C3_CompletionTable ==
  call = "calculate_completion_times" =>
    /\ result.status = "returned"
    /\ DOMAIN tables.e = (0..N) \X (0..M)
    /\ \A i \in 0..N : tables.e[<<i, 0>>] = 0
    /\ \A j \in 0..M : tables.e[<<0, j>>] = 0
    /\ \A i \in 1..N : \A j \in 1..M :
         tables.e[<<i, j>>] = Max(tables.e[<<i - 1, j>>], tables.e[<<i, j - 1>>])
                                + processing_times[sequence[i]][j]
    /\ return_array = 1 => result.value = tables.e
    /\ return_array = 0 => result.value = tables.e[<<N, M>>]
    /\ (processing_times = Scenario /\ sequence = <<1, 2>>) =>
         /\ <<tables.e[<<1, 0>>], tables.e[<<1, 1>>], tables.e[<<1, 2>>]>> = <<0, 3, 5>>
         /\ <<tables.e[<<2, 0>>], tables.e[<<2, 1>>], tables.e[<<2, 2>>]>> = <<0, 5, 9>>
         /\ return_array = 0 => result.value = 9

\* C3 witness: a returned table of at least two jobs with an entry whose upper
\* neighbour is larger than its left neighbour, itself positive.
C3_Witness ==
  /\ Done("calculate_completion_times")
  /\ return_array = 1
  /\ N >= 2
  /\ \E i \in 1..N : \E j \in 1..M :
       /\ result.value[<<i - 1, j>>] > result.value[<<i, j - 1>>]
       /\ result.value[<<i, j - 1>>] > 0

\* The idle time of the job at position i, from the completion-time table.
IdleSum(i) ==
  LET Body(acc, j) == acc + tables.e[<<i, j>>] - processing_times[sequence[i]][j]
                          - tables.e[<<i - 1, j>>]
  IN For(Body, 0, 1, M)

\* C4: for every valid sequence calculate_idle_times returns a vector whose
\* entries are all >= 0 and in which the entry of each job of the sequence is
\* the sum over the machines of E[i][j] - p[job][j-1] - E[i-1][j].
C4_IdleTimes ==
  call = "calculate_idle_times" =>
    /\ result.status = "returned"
    /\ \A k \in DOMAIN result.value : result.value[k] >= 0
    /\ \A i \in 1..N :
         /\ sequence[i] - 1 \in DOMAIN result.value
         /\ result.value[sequence[i] - 1] = IdleSum(i)

\* C5: for every valid sequence, partial ones included, calculate_idle_times
\* returns a vector of length N and every write idle_time[sequence[i] - 1]
\* falls inside the indices 0..N-1 of that vector.
C5_IdleWritesInside ==
  call = "calculate_idle_times" =>
    /\ result.status = "returned"
    /\ DOMAIN result.value = 0..(N - 1)
    /\ \A idx \in DOMAIN tables.idle_time : idx[1] \in 0..(N - 1)

\* C6: a repeated call of taillard_acceleration with the same arguments
\* returns the same (position, makespan), whatever the working tables held
\* before the call.
C6_Determinism ==
  [][(call = "taillard_acceleration" /\ call' = "taillard_acceleration")
       => result' = result]_vars

\* C7: a call with at most 800 jobs in the sequence and at most 60 machines
\* uses no cell outside the declared tables e, q, f, fl [801][61] and ms [801].
C7_WithinDeclaredTables ==
  (call = "taillard_acceleration" /\ N <= TableRows - 1 /\ M <= TableCols - 1) =>
    /\ result.status = "returned"
    /\ ~Overflows(tables.e) /\ ~Overflows(tables.q) /\ ~Overflows(tables.f)
    /\ ~Overflows(tables.ms) /\ ~Overflows(tables.fl)

\* C8: with tie breaking the makespan returned is the one returned without,
\* and the position returned lies in 1..N+1 and has the least makespan.
C8_TieBreakingKeepsMakespan ==
  (call = "taillard_acceleration" /\ use_tie_breaking = 1) =>
    /\ result.status = "returned"
    /\ \A g \in Priors(FALSE) :
         result.value.best_makespan = WithoutTieBreaking(g).best_makespan
    /\ result.value.best_position \in 1..(N + 1)
    /\ result.value.best_position \in MinPositions

\* C8 witness: a call where tie breaking moved the position away from the one
\* returned without it, the makespan being positive.
C8_Witness ==
  /\ Done("taillard_acceleration")
  /\ use_tie_breaking = 1
  /\ result.value.best_makespan > 0
  /\ \E g \in Priors(FALSE) :
       result.value.best_position # WithoutTieBreaking(g).best_position

\* C9: a call whose sequence or inserting job names a job outside
\* 1..total_jobs fails with a job-id-out-of-range failure and returns nothing.
C9_JobIdOutOfRange ==
  (\/ call = "taillard_acceleration" /\ ~(ValidSequence /\ ValidJob(inserting_job))
   \/ call \in {"calculate_completion_times", "calculate_idle_times"} /\ ~ValidSequence)
    => result.status = "job_id_out_of_range"

\* C10: when exactly one position has the least makespan, the call with tie
\* breaking returns the position the call without tie breaking returns.
C10_UniqueMinimumUnaffected ==
  (Done("taillard_acceleration") /\ use_tie_breaking = 1
     /\ Cardinality(MinPositions) = 1) =>
    \A g \in Priors(FALSE) :
      result.value.best_position = WithoutTieBreaking(g).best_position

\* C10 witness: a call with tie breaking on a non-empty sequence whose only
\* position of least makespan is not the first one.
C10_Witness ==
  /\ Done("taillard_acceleration")
  /\ use_tie_breaking = 1
  /\ N >= 1
  /\ Cardinality(MinPositions) = 1
  /\ result.value.best_position > 1

====
